---------------------------- MODULE Spec2Model ----------------------------
(***************************************************************************)
(* A model of the sslstrip proxy (src/sslstrip.go): the per-transaction    *)
(* request/response rewriting pipeline of server.ServeHTTP and the         *)
(* process-wide Link Map (storedLinks) guarded by the RWMutex mu.          *)
(*                                                                         *)
(* Byte strings are TLA+ strings; positions are 1-based, so Go's index -1  *)
(* ("not found") is 0 here and Go's s[i:j] is SubSeq(s, i+1, j).           *)
(***************************************************************************)
EXTENDS Naturals, Sequences, FiniteSets, TLC

(***************************************************************************)
(* Package strings.                                                        *)
(***************************************************************************)
Ch(s, i) == SubSeq(s, i, i)

From(s, i) == SubSeq(s, i, Len(s))

HasPrefix(s, p) == Len(s) >= Len(p) /\ SubSeq(s, 1, Len(p)) = p

HasPrefixAt(s, i, p) == i + Len(p) - 1 <= Len(s) /\ SubSeq(s, i, i + Len(p) - 1) = p

HasSuffix(s, p) == Len(s) >= Len(p) /\ SubSeq(s, Len(s) - Len(p) + 1, Len(s)) = p

Occurrences(s, sub) == {i \in 1..Len(s) : HasPrefixAt(s, i, sub)}

\* the least element of a set of positions, 0 for the empty set
MinOrZero(S) == IF S = {} THEN 0 ELSE CHOOSE m \in S : \A n \in S : m <= n

\* the greatest element of a set of positions, 0 for the empty set
MaxOrZero(S) == IF S = {} THEN 0 ELSE CHOOSE m \in S : \A n \in S : m >= n

\* strings.Index, 0 when sub does not occur
Index(s, sub) == MinOrZero(Occurrences(s, sub))

\* strings.LastIndex, 0 when sub does not occur
LastIndex(s, sub) == MaxOrZero(Occurrences(s, sub))

Contains(s, sub) == Occurrences(s, sub) # {}

\* s up to position i (exclusive), all of s when i is 0
Before(s, i) == IF i = 0 THEN s ELSE SubSeq(s, 1, i - 1)

\* s after position i, nothing when i is 0
After(s, i) == IF i = 0 THEN "" ELSE From(s, i + 1)

\* strings.Split(s, sep)[0]
SplitFirst(s, sep) == Before(s, Index(s, sep))

(***************************************************************************)
(* Package net/url, on the inputs of this model: URLs with lower-case      *)
(* schemes, without userinfo ("@"), without bracketed hosts and without    *)
(* valid percent escapes; a "%" that does not start an escape, and a space *)
(* in the host, make url.Parse fail.                                       *)
(***************************************************************************)
Lower == {"a","b","c","d","e","f","g","h","i","j","k","l","m",
          "n","o","p","q","r","s","t","u","v","w","x","y","z"}

Upper == {"A","B","C","D","E","F","G","H","I","J","K","L","M",
          "N","O","P","Q","R","S","T","U","V","W","X","Y","Z"}

\* strings.ToLower, on ASCII
RECURSIVE ToLower(_)
ToLower(s) ==
    IF s = "" THEN ""
    ELSE (IF Ch(s, 1) \in Upper
          THEN Ch("abcdefghijklmnopqrstuvwxyz", Index("ABCDEFGHIJKLMNOPQRSTUVWXYZ", Ch(s, 1)))
          ELSE Ch(s, 1)) \o ToLower(From(s, 2))

Digit == {"0","1","2","3","4","5","6","7","8","9"}

HexDigit == Digit \cup {"a","b","c","d","e","f","A","B","C","D","E","F"}

\* every "%" of s is followed by two hex digits (url.unescape's first pass)
EscapesOk(s) ==
    \A i \in 1..Len(s) :
        Ch(s, i) = "%" =>
            /\ i + 2 <= Len(s)
            /\ Ch(s, i + 1) \in HexDigit
            /\ Ch(s, i + 2) \in HexDigit

\* url.getScheme once its loop stops at position i (0: it ran to the end)
SchemeAt(rawURL, i) ==
    IF i = 0 \/ Ch(rawURL, i) # ":"
    THEN [err |-> FALSE, scheme |-> "", rest |-> rawURL]
    ELSE IF i = 1
    THEN [err |-> TRUE, scheme |-> "", rest |-> ""]
    ELSE [err |-> FALSE, scheme |-> SubSeq(rawURL, 1, i - 1), rest |-> From(rawURL, i + 1)]

\* url.getScheme: [err, scheme, rest]
getScheme(rawURL) ==
    SchemeAt(rawURL,
             MinOrZero({i \in 1..Len(rawURL) :
                           /\ Ch(rawURL, i) \notin (Lower \cup Upper)
                           /\ (i = 1 \/ Ch(rawURL, i) \notin (Digit \cup {"+", "-", "."}))}))

URLError == [err |-> TRUE, Scheme |-> "", Opaque |-> "", Host |-> "", Path |-> "",
             ForceQuery |-> FALSE, RawQuery |-> "", Fragment |-> ""]

\* url.parse: setPath
ParsePath(scheme, host, path, query, force, frag) ==
    IF ~EscapesOk(path) THEN URLError
    ELSE [err |-> FALSE, Scheme |-> scheme, Opaque |-> "", Host |-> host, Path |-> path,
          ForceQuery |-> force, RawQuery |-> query, Fragment |-> frag]

\* url.parse: parseAuthority
ParseHost(scheme, authority, path, query, force, frag) ==
    IF ~EscapesOk(authority) \/ Contains(authority, " ") THEN URLError
    ELSE ParsePath(scheme, authority, path, query, force, frag)

\* url.parse: the authority is cut at the first "/" of s, at position slash
ParseAuthority(scheme, s, slash, query, force, frag) ==
    ParseHost(scheme, Before(s, slash), IF slash = 0 THEN "" ELSE From(s, slash),
              query, force, frag)

\* the first path segment contains a colon
ColonFirst(colon, slash) == colon # 0 /\ (slash = 0 \/ colon < slash)

\* url.parse after the query is cut off
ParseHier(scheme, rest, query, force, frag) ==
    IF ~HasPrefix(rest, "/") /\ scheme # ""
    THEN [err |-> FALSE, Scheme |-> scheme, Opaque |-> rest, Host |-> "", Path |-> "",
          ForceQuery |-> force, RawQuery |-> query, Fragment |-> frag]
    ELSE IF ~HasPrefix(rest, "/") /\ ColonFirst(Index(rest, ":"), Index(rest, "/"))
    THEN URLError
    ELSE IF (scheme # "" \/ ~HasPrefix(rest, "///")) /\ HasPrefix(rest, "//")
    THEN ParseAuthority(scheme, From(rest, 3), Index(From(rest, 3), "/"),
                        query, force, frag)
    ELSE ParsePath(scheme, "", rest, query, force, frag)

\* url.parse: the query is cut off at the first "?", at position q
ParseQuery(scheme, rest, q, frag) ==
    ParseHier(scheme, Before(rest, q), After(rest, q),
              HasSuffix(rest, "?") /\ Cardinality(Occurrences(rest, "?")) = 1, frag)

\* url.parse after getScheme
ParseScheme(sch, frag) ==
    IF sch.err \/ ~EscapesOk(frag) THEN URLError
    ELSE ParseQuery(ToLower(sch.scheme), sch.rest, Index(sch.rest, "?"), frag)

\* url.Parse: the fragment is cut off at the first "#", at position hash
ParseFragment(rawURL, hash) ==
    ParseScheme(getScheme(Before(rawURL, hash)), After(rawURL, hash))

\* url.Parse
Parse(rawURL) == ParseFragment(rawURL, Index(rawURL, "#"))

\* (*URL).String
String(u) ==
    (IF u.Scheme # "" THEN u.Scheme \o ":" ELSE "")
    \o (IF u.Opaque # "" THEN u.Opaque
        ELSE (IF (u.Scheme # "" \/ u.Host # "") /\ (u.Host # "" \/ u.Path # "")
              THEN "//" ELSE "")
             \o u.Host
             \o (IF u.Path # "" /\ Ch(u.Path, 1) # "/" /\ u.Host # "" THEN "/" ELSE "")
             \o u.Path)
    \o (IF u.ForceQuery \/ u.RawQuery # "" THEN "?" \o u.RawQuery ELSE "")
    \o (IF u.Fragment # "" THEN "#" \o u.Fragment ELSE "")

\* normalizeUrl on the parsed link
Normalized(originalUrl) ==
    IF originalUrl.err THEN [err |-> TRUE, url |-> ""]
    ELSE [err |-> FALSE,
          url |-> String([originalUrl EXCEPT !.Path = IF @ = "" THEN "/" ELSE @])]

\* normalizeUrl: [err, url]
normalizeUrl(link) == Normalized(Parse(link))

\* normalizeIP
normalizeIP(remoteAddr) == SplitFirst(remoteAddr, ":")

RECURSIVE SplitSlash(_)
\* strings.Split(s, "/") with the first "/" of s at position i
SplitSlashAt(s, i) ==
    IF i = 0 THEN <<s>> ELSE <<SubSeq(s, 1, i - 1)>> \o SplitSlash(From(s, i + 1))

\* strings.Split(s, "/")
SplitSlash(s) == SplitSlashAt(s, Index(s, "/"))

RECURSIVE DropDots(_, _)
\* the loop of url.resolvePath over the path's segments
DropDots(src, dst) ==
    IF src = <<>> THEN dst
    ELSE IF Head(src) = "." THEN DropDots(Tail(src), dst)
    ELSE IF Head(src) = ".."
    THEN DropDots(Tail(src), IF dst = <<>> THEN dst ELSE SubSeq(dst, 1, Len(dst) - 1))
    ELSE DropDots(Tail(src), Append(dst, Head(src)))

RECURSIVE JoinSlash(_)
\* strings.Join(elems, "/")
JoinSlash(elems) ==
    IF elems = <<>> THEN ""
    ELSE IF Len(elems) = 1 THEN elems[1]
    ELSE elems[1] \o "/" \o JoinSlash(Tail(elems))

\* url.resolvePath: a final "." or ".." leaves a final slash
CleanSegments(src) ==
    IF src[Len(src)] \in {".", ".."} THEN Append(DropDots(src, <<>>), "")
    ELSE DropDots(src, <<>>)

\* url.resolvePath: "/" + strings.TrimPrefix(joined, "/")
Rooted(joined) == "/" \o (IF HasPrefix(joined, "/") THEN From(joined, 2) ELSE joined)

\* url.resolvePath on the merged path
CleanPath(full) ==
    IF full = "" THEN "" ELSE Rooted(JoinSlash(CleanSegments(SplitSlash(full))))

\* url.resolvePath
resolvePath(base, ref) ==
    CleanPath(IF ref = "" THEN base
              ELSE IF Ch(ref, 1) # "/" THEN SubSeq(base, 1, LastIndex(base, "/")) \o ref
              ELSE ref)

\* (*URL).ResolveReference
ResolveReference(u, ref) ==
    IF ref.Scheme # ""
    THEN [ref EXCEPT !.Path = resolvePath(ref.Path, "")]
    ELSE IF ref.Host # ""
    THEN [ref EXCEPT !.Scheme = u.Scheme, !.Path = resolvePath(ref.Path, "")]
    ELSE IF ref.Opaque # ""
    THEN [ref EXCEPT !.Scheme = u.Scheme, !.Host = "", !.Path = ""]
    ELSE [ref EXCEPT
             !.Scheme = u.Scheme,
             !.RawQuery = IF ref.Path = "" /\ ref.RawQuery = "" THEN u.RawQuery ELSE @,
             !.Fragment = IF ref.Path = "" /\ ref.RawQuery = "" /\ ref.Fragment = ""
                          THEN u.Fragment ELSE @,
             !.Host = u.Host,
             !.Path = resolvePath(u.Path, ref.Path)]

\* (*URL).Parse on the parsed reference
Resolved(u, ref) ==
    IF ref.err THEN [err |-> TRUE, url |-> ""]
    ELSE [err |-> FALSE, url |-> String(ResolveReference(u, ref))]

\* (*URL).Parse: [err, url], url the String() of the resolved reference
URLParse(base, link) == Resolved(Parse(base), Parse(link))

(***************************************************************************)
(* The Link Map.  A key is <<clientIP, url>> (clientLink).                 *)
(***************************************************************************)
clientLink(remoteAddr, url) == <<normalizeIP(remoteAddr), url>>

\* storedLinks[cl] = link
Store(links, cl, link) ==
    [k \in DOMAIN links \cup {cl} |-> IF k = cl THEN link ELSE links[k]]

(***************************************************************************)
(* http.Header: a function from the header names present to the sequence   *)
(* of their values.                                                        *)
(***************************************************************************)
Get(h, key) == IF key \in DOMAIN h /\ h[key] # <<>> THEN h[key][1] ELSE ""

HeaderSet(h, key, value) ==
    [k \in DOMAIN h \cup {key} |-> IF k = key THEN <<value>> ELSE h[k]]

ignoredRequestHeaders == {"Cache-Control", "If-Modified-Since", "If-None-Match"}

ignoredResponseHeaders ==
    {"Content-Length", "Public-Key-Pins", "Public-Key-Pins-Report-Only",
     "Strict-Transport-Security"}

\* a copy loop that skips no request header
ProxyHeadersAll(h) == h

\* the request header copy loop of ServeHTTP
ProxyHeaders(h) == [k \in DOMAIN h \ ignoredRequestHeaders |-> h[k]]

\* a copy loop that skips no response header
VictimHeadersAll(h) == h

\* the response header copy loop of ServeHTTP
VictimHeaders(h) == [k \in DOMAIN h \ ignoredResponseHeaders |-> h[k]]

(***************************************************************************)
(* stripResponse.                                                          *)
(***************************************************************************)
\* the character class of the body regex: [a-zA-Z0-9_:#@%/;$()~_?+-=\.&],
\* in which +-= is the range from "+" to "="
UrlChars ==
    Lower \cup Upper \cup Digit \cup
    {"_", ":", "#", "@", "%", "/", ";", "$", "(", ")", "~", "?", ".", "&",
     "+", ",", "-", "<", "="}

\* the character class of the CSS regex: the same without the parentheses
CssChars == UrlChars \ {"(", ")"}

\* position i, or the position after the end of s when i is 0
OrEnd(s, i) == IF i = 0 THEN Len(s) + 1 ELSE i

\* the first position at or after i whose character is outside class
RunEnd(s, i, class) == OrEnd(s, MinOrZero({j \in i..Len(s) : Ch(s, j) \notin class}))

\* cookie[:idx] + cookie[idx+6:]
CutSecure(cookie, idx) ==
    IF idx # 0 THEN SubSeq(cookie, 1, idx - 1) \o From(cookie, idx + 6) ELSE cookie

\* the cookie loop's body: the last "Secure" is cut out of the value
stripCookie(cookie) == CutSecure(cookie, LastIndex(cookie, "Secure"))

\* the cookie loop
stripCookies(h) ==
    [k \in DOMAIN h |->
        IF k = "Set-Cookie" THEN [i \in 1..Len(h[k]) |-> stripCookie(h[k][i])] ELSE h[k]]

\* the callback of the body regex once the stripped url is normalized
StoreStripped(url, n) ==
    IF n.err THEN [stored |-> FALSE, out |-> url, url |-> "", link |-> ""]
    ELSE [stored |-> TRUE, out |-> n.url, url |-> n.url, link |-> url]

\* the callback of the body regex on one match: [stored, out, url, link]
stripUrl(url) == StoreStripped(url, normalizeUrl("http://" \o From(url, 9)))

\* a replacement spliced between the text before it and the rewritten rest
Splice(before, m, rest) ==
    [out |-> before \o m.out \o rest.out,
     links |-> (IF m.stored THEN <<[url |-> m.url, link |-> m.link]>> ELSE <<>>)
               \o rest.links]

RECURSIVE ReplaceHttps(_, _)
\* the next match of the body regex starts at j and ends before e
ReplaceHttpsMatch(body, i, j, e) ==
    Splice(SubSeq(body, i, j - 1), stripUrl(SubSeq(body, j, e - 1)), ReplaceHttps(body, e))

\* the next match of the body regex starts at j (0: there is none)
ReplaceHttpsAt(body, i, j) ==
    IF j = 0 THEN [out |-> From(body, i), links |-> <<>>]
    ELSE ReplaceHttpsMatch(body, i, j, RunEnd(body, j + 8, UrlChars))

\* regex.ReplaceAllFunc(body, ...) from position i: the rewritten text and
\* the setLink calls made, in order
ReplaceHttps(body, i) ==
    ReplaceHttpsAt(body, i, MinOrZero({j \in i..Len(body) : HasPrefixAt(body, j, "https://")}))

Quotes == {"'", "\""}

\* ['"]? at position p
SkipQuote(s, p) == IF p <= Len(s) /\ Ch(s, p) \in Quotes THEN p + 1 ELSE p

\* \) at position c
CssClose(s, c) == IF c <= Len(s) /\ Ch(s, c) = ")" THEN c + 1 ELSE 0

\* the end (exclusive) of a match of the CSS regex starting at i, 0 if none
CssMatchEnd(s, i) ==
    IF ~HasPrefixAt(s, i, "url(") THEN 0
    ELSE CssClose(s, SkipQuote(s, RunEnd(s, SkipQuote(s, i + 4), CssChars)))

\* the absolute url of a CSS reference
AbsoluteUrl(url, scheme, host, path) ==
    IF HasPrefix(url, "url('/") \/ HasPrefix(url, "url(\"/")
    THEN scheme \o "://" \o host \o SubSeq(url, 6, Len(url) - 1)
    ELSE IF HasPrefix(url, "url(/")
    THEN scheme \o "://" \o host \o SubSeq(url, 5, Len(url) - 1)
    ELSE IF HasPrefix(url, "url('") \/ HasPrefix(url, "url(\"")
    THEN scheme \o "://" \o host \o path \o "/" \o SubSeq(url, 6, Len(url) - 1)
    ELSE scheme \o "://" \o host \o path \o "/" \o SubSeq(url, 5, Len(url) - 1)

\* the stripped form of the absolute url
StrippedCssUrl(scheme, absoluteUrl) ==
    IF scheme = "https" THEN "http" \o From(absoluteUrl, 6) ELSE absoluteUrl

\* the callback of the CSS regex once the reference is resolved
StoreCssUrl(strippedUrl, absoluteUrl) ==
    [stored |-> TRUE, out |-> "url('" \o strippedUrl \o "')",
     url |-> strippedUrl, link |-> absoluteUrl]

\* the callback of the CSS regex on one match: [stored, out, url, link]
stripCssUrl(url, scheme, host, path) ==
    IF \/ HasPrefix(url, "url('http") \/ HasPrefix(url, "url(\"http")
       \/ HasPrefix(url, "url(http") \/ Contains(url, "base64")
    THEN [stored |-> FALSE, out |-> url, url |-> "", link |-> ""]
    ELSE StoreCssUrl(StrippedCssUrl(scheme, AbsoluteUrl(url, scheme, host, path)),
                     AbsoluteUrl(url, scheme, host, path))

RECURSIVE ReplaceCssUrls(_, _, _, _, _)
\* the next match of the CSS regex starts at j and ends before e
ReplaceCssMatch(body, i, j, e, scheme, host, path) ==
    Splice(SubSeq(body, i, j - 1), stripCssUrl(SubSeq(body, j, e - 1), scheme, host, path),
           ReplaceCssUrls(body, e, scheme, host, path))

\* the next match of the CSS regex starts at j (0: there is none)
ReplaceCssAt(body, i, j, scheme, host, path) ==
    IF j = 0 THEN [out |-> From(body, i), links |-> <<>>]
    ELSE ReplaceCssMatch(body, i, j, CssMatchEnd(body, j), scheme, host, path)

\* cssUrlsRegex.ReplaceAllFunc(strippedBody, ...) from position i
ReplaceCssUrls(body, i, scheme, host, path) ==
    ReplaceCssAt(body, i, MinOrZero({j \in i..Len(body) : CssMatchEnd(body, j) # 0}),
                 scheme, host, path)

\* the setLink calls of one response, keyed for its client
Calls(remoteAddr, ls) ==
    [i \in 1..Len(ls) |-> [cl |-> clientLink(remoteAddr, ls[i].url), link |-> ls[i].link]]

\* stripResponse: the return after the CSS pass
StripDone(remoteAddr, header, links, css) ==
    [err |-> FALSE, links |-> Calls(remoteAddr, links \o css.links),
     Header |-> header, body |-> css.out]

\* stripResponse: the CSS pass, for a request url u
StripCss(remoteAddr, u, reqHost, header, locLinks, html) ==
    IF Contains(Get(header, "Content-Type"), "text/css")
    THEN StripDone(remoteAddr, header, locLinks \o html.links,
                   ReplaceCssUrls(html.out, 1, u.Scheme, reqHost, u.Path))
    ELSE [err |-> FALSE, links |-> Calls(remoteAddr, locLinks \o html.links),
          Header |-> header, body |-> html.out]

\* stripResponse from the cookie loop on: read is what reading the body gives
StripBody(remoteAddr, reqURL, reqHost, header, locLinks, read) ==
    IF read.err
    THEN [err |-> TRUE, links |-> Calls(remoteAddr, locLinks),
          Header |-> stripCookies(header), body |-> ""]
    ELSE StripCss(remoteAddr, Parse(reqURL), reqHost, stripCookies(header), locLinks,
                  ReplaceHttps(read.body, 1))

\* stripResponse setting the Location without caching the original
StripLocationNoStore(remoteAddr, reqURL, reqHost, resHeader, read, location, strippedLocation) ==
    IF strippedLocation.err
    THEN [err |-> TRUE, links |-> <<>>, Header |-> resHeader, body |-> ""]
    ELSE StripBody(remoteAddr, reqURL, reqHost,
                   HeaderSet(resHeader, "Location", strippedLocation.url), <<>>, read)

\* stripResponse: the Location is stripped, cached and set
StripLocation(remoteAddr, reqURL, reqHost, resHeader, read, location, strippedLocation) ==
    IF strippedLocation.err
    THEN [err |-> TRUE, links |-> <<>>, Header |-> resHeader, body |-> ""]
    ELSE StripBody(remoteAddr, reqURL, reqHost,
                   HeaderSet(resHeader, "Location", strippedLocation.url),
                   <<[url |-> strippedLocation.url, link |-> location]>>, read)

\* stripResponse for a response whose Location header is location
StripFrom(remoteAddr, reqURL, reqHost, resHeader, read, location) ==
    IF HasPrefix(location, "https")
    THEN StripLocation(remoteAddr, reqURL, reqHost, resHeader, read, location,
                       normalizeUrl("http" \o From(location, 6)))
    ELSE StripBody(remoteAddr, reqURL, reqHost, resHeader, <<>>, read)

\* stripResponse: [err, links, Header, body], links the setLink calls made
\* before it returns, in order; read is [body, err], what reading res.Body gives
stripResponse(remoteAddr, reqURL, reqHost, resHeader, read) ==
    StripFrom(remoteAddr, reqURL, reqHost, resHeader, read, Get(resHeader, "Location"))

(***************************************************************************)
(* compress/gzip, as a framing of the payload between a header and a       *)
(* trailer: gzip.NewReader fails on a stream without the header, reading   *)
(* fails on a stream without the trailer.                                  *)
(***************************************************************************)
GzipMagic == "GZ["

GzipTrailer == "]"

gzipWrite(data) == GzipMagic \o data \o GzipTrailer

gzipHeaderOk(stream) == HasPrefix(stream, GzipMagic)

gzipReadErr(stream) == ~HasSuffix(From(stream, Len(GzipMagic) + 1), GzipTrailer)

gzipRead(stream) ==
    IF gzipReadErr(stream) THEN ""
    ELSE SubSeq(stream, Len(GzipMagic) + 1, Len(stream) - Len(GzipTrailer))

(***************************************************************************)
(* The requests the victims send and the responses the origin gives.       *)
(***************************************************************************)
EmptyHeader == [k \in {} |-> <<>>]

\* the requests of the concurrent runs: one client on two connections, and
\* another client
Requests ==
    { [RemoteAddr |-> "10.0.0.1:5000", Method |-> "GET", URL |-> "http://a",
       Host |-> "a", Close |-> FALSE, Body |-> "",
       Header |-> [k \in {"Accept"} |-> <<"*/*">>]],
      [RemoteAddr |-> "10.0.0.1:5001", Method |-> "POST", URL |-> "http://a/",
       Host |-> "a", Close |-> TRUE, Body |-> "u=1",
       Header |-> ("Cache-Control" :> <<"no-cache">> @@ "Cookie" :> <<"sid=1", "t=2">>
                   @@ "If-None-Match" :> <<"\"e1\"">>)],
      [RemoteAddr |-> "10.0.0.2:5000", Method |-> "GET", URL |-> "http://a/",
       Host |-> "a", Close |-> FALSE, Body |-> "",
       Header |-> ("If-Modified-Since" :> <<"Thu, 01 Jan 2015 00:00:00 GMT">>
                   @@ "Accept-Encoding" :> <<"gzip">>)] }

\* the requests of the sequential runs
AllRequests ==
    Requests \cup
    { [RemoteAddr |-> "10.0.0.1:5000", Method |-> "GET", URL |-> "http://a/s",
       Host |-> "a", Close |-> FALSE, Body |-> "", Header |-> EmptyHeader],
      [RemoteAddr |-> "10.0.0.2:5000", Method |-> "POST", URL |-> "http://a/i",
       Host |-> "a", Close |-> TRUE, Body |-> "p=2",
       Header |-> [k \in {"Cache-Control", "Cookie", "If-Modified-Since",
                                "If-None-Match"} |-> <<"y", "z">>]] }

\* the requests of the fair runs: one victim on two connections
OneVictim == {r \in Requests : normalizeIP(r.RemoteAddr) = "10.0.0.1"}

\* the responses of the concurrent runs
Responses ==
    { \* a redirect to the secure site
      [StatusCode |-> 302, Body |-> "", readErr |-> FALSE,
       Header |-> ("Location" :> <<"https://a">> @@ "Content-Length" :> <<"0">>
                   @@ "Strict-Transport-Security" :> <<"max-age=600">>)],
      \* a redirect whose body names the target again
      [StatusCode |-> 301, Body |-> "see https://a/", readErr |-> FALSE,
       Header |-> [k \in {"Location"} |-> <<"https://a">>]],
      \* a page without links
      [StatusCode |-> 200, Body |-> "hello", readErr |-> FALSE,
       Header |-> [k \in {"Content-Type"} |-> <<"text/html">>]] }

\* the responses of the fair runs: the redirects, which store links
Redirects == {r \in Responses : "Location" \in DOMAIN r.Header}

\* the responses of the sequential runs
AllResponses ==
    Responses \cup
    { \* a redirect whose Location does not parse
      [StatusCode |-> 302, Body |-> "", readErr |-> FALSE,
       Header |-> [k \in {"Location"} |-> <<"https://a b/">>]],
      \* a redirect whose body cannot be read
      [StatusCode |-> 302, Body |-> "", readErr |-> TRUE,
       Header |-> [k \in {"Location"} |-> <<"https://a/s">>]],
      \* a page with cookies, pins and links
      [StatusCode |-> 200, readErr |-> FALSE,
       Body |-> "<a href=\"https://a/s\"> https://a/?u=https://b https://a/%",
       Header |-> ("Content-Type" :> <<"text/html">>
                   @@ "Set-Cookie" :> <<"sid=1; Path=/; Secure; HttpOnly",
                                        "t=1; Secure; Path=/Secure", "u=3">>
                   @@ "Public-Key-Pins" :> <<"pin-sha256=\"AA\"; max-age=600">>
                   @@ "Public-Key-Pins-Report-Only" :> <<"pin-sha256=\"BB\"">>)],
      \* a style sheet
      [StatusCode |-> 200, readErr |-> FALSE,
       Body |-> "url(/i) url('j') url(http://c) url(data:base64,AA)",
       Header |-> [k \in {"Content-Type"} |-> <<"text/css; charset=utf-8">>]],
      \* a style sheet with quoted references
      [StatusCode |-> 200, readErr |-> FALSE, Body |-> "url('/k') url(\"/m\")",
       Header |-> [k \in {"Content-Type"} |-> <<"text/css">>]],
      \* a gzip page
      [StatusCode |-> 200, readErr |-> FALSE,
       Body |-> gzipWrite("<a href=\"https://a/s\">"),
       Header |-> ("Content-Type" :> <<"text/html">> @@ "Content-Encoding" :> <<"gzip">>
                   @@ "Content-Length" :> <<"25">>)],
      \* a gzip page without links
      [StatusCode |-> 200, readErr |-> FALSE, Body |-> gzipWrite("hello"),
       Header |-> ("Content-Type" :> <<"text/html">> @@ "Content-Encoding" :> <<"gzip">>)],
      \* a deflate page of one stored block, which holds the text as it is
      [StatusCode |-> 200, readErr |-> FALSE, Body |-> "DS[<a href=\"https://a/s\">]",
       Header |-> ("Content-Type" :> <<"text/html">> @@ "Content-Encoding" :> <<"deflate">>)],
      \* a brotli page
      [StatusCode |-> 200, readErr |-> FALSE, Body |-> "BR[k9!x]",
       Header |-> ("Content-Type" :> <<"text/html">> @@ "Content-Encoding" :> <<"br">>)],
      \* a page declared gzip that is not
      [StatusCode |-> 200, readErr |-> FALSE, Body |-> "plain",
       Header |-> [k \in {"Content-Encoding"} |-> <<"gzip">>]],
      \* a gzip page cut short
      [StatusCode |-> 200, readErr |-> FALSE, Body |-> GzipMagic \o "https://a/s",
       Header |-> [k \in {"Content-Encoding"} |-> <<"gzip">>]] }

NoRequest == [RemoteAddr |-> "", Method |-> "", URL |-> "", Host |-> "",
              Close |-> FALSE, Body |-> "", Header |-> EmptyHeader]

NoResponse == [StatusCode |-> 0, Body |-> "", readErr |-> FALSE, Header |-> EmptyHeader]

NoStrip == [err |-> FALSE, links |-> <<>>, Header |-> EmptyHeader, body |-> ""]

\* nothing written to the victim: every early return of ServeHTTP
NoOutput == [wroteHeader |-> FALSE, StatusCode |-> 0, Header |-> EmptyHeader, body |-> ""]

Tx == {1, 2}

MaxTransactions == 3

MaxFairTransactions == 2

MaxSeqTransactions == 2

(***************************************************************************)
(* The state: the Link Map and its lock, and each transaction's position   *)
(* in ServeHTTP with its locals.  everStored and seen are history          *)
(* variables: every (key, link) setLink has stored, and for a transaction  *)
(* the links that had been stored under its own key when it started.       *)
(***************************************************************************)
VARIABLES storedLinks, mu, pc, req, proxyReq, res, strip, out, failed, started,
          everStored, seen

vars == <<storedLinks, mu, pc, req, proxyReq, res, strip, out, failed, started,
          everStored, seen>>

\* the key makeRequest looks up for request r
LookupKey(r) == clientLink(r.RemoteAddr, normalizeUrl(r.URL).url)

\* the links ever stored under key cl
LinksEver(cl) == {e[2] : e \in {x \in everStored : x[1] = cl}}

\* the upstream request ServeHTTP builds from the incoming one
BuildProxyReq(r) ==
    [Method |-> r.Method, URL |-> String(Parse(r.URL)), Header |-> ProxyHeaders(r.Header),
     Host |-> r.Host, Close |-> r.Close, Body |-> r.Body, RemoteAddr |-> r.RemoteAddr]

\* BuildProxyReq, tabulated over the requests
ProxyReqOf == [r \in AllRequests |-> BuildProxyReq(r)]

\* LookupKey, tabulated over the requests
KeyOf == [r \in AllRequests |-> LookupKey(r)]

NoProxyReq == [Method |-> "", URL |-> "", Header |-> EmptyHeader, Host |-> "",
               Close |-> FALSE, Body |-> "", RemoteAddr |-> ""]

\* sync.RWMutex: RLock returns when no writer holds the lock
CanRLock(m) == m.writer = 0

\* a writer's lock that does not wait for the readers
CanLockOverReaders(m) == m.writer = 0

\* sync.RWMutex: Lock returns when nobody holds the lock
CanLock(m) == m.writer = 0 /\ m.readers = {}

Init ==
    /\ storedLinks = [k \in {} |-> ""]
    /\ mu = [writer |-> 0, readers |-> {}]
    /\ pc = [t \in Tx |-> "idle"]
    /\ req = [t \in Tx |-> NoRequest]
    /\ proxyReq = [t \in Tx |-> NoProxyReq]
    /\ res = [t \in Tx |-> NoResponse]
    /\ strip = [t \in Tx |-> NoStrip]
    /\ out = [t \in Tx |-> NoOutput]
    /\ failed = [t \in Tx |-> ""]
    /\ started = 0
    /\ everStored = {}
    /\ seen = [t \in Tx |-> {}]

\* ServeHTTP up to the call of makeRequest: the request body is read and the
\* upstream request built
ServeHTTP(t, requests, max) ==
    /\ pc[t] \in {"idle", "done"}
    /\ started < max
    /\ started' = started + 1
    /\ \E r \in requests :
          /\ req' = [req EXCEPT ![t] = r]
          /\ seen' = [seen EXCEPT ![t] = LinksEver(KeyOf[r])]
          /\ \/ /\ proxyReq' = [proxyReq EXCEPT ![t] = ProxyReqOf[r]]
                /\ failed' = [failed EXCEPT ![t] = ""]
                /\ pc' = [pc EXCEPT ![t] = "getLink"]
             \/ /\ proxyReq' = [proxyReq EXCEPT ![t] = NoProxyReq]
                /\ failed' = [failed EXCEPT ![t] = "readBody"]
                /\ pc' = [pc EXCEPT ![t] = "done"]
    /\ res' = [res EXCEPT ![t] = NoResponse]
    /\ strip' = [strip EXCEPT ![t] = NoStrip]
    /\ out' = [out EXCEPT ![t] = NoOutput]
    /\ UNCHANGED <<storedLinks, mu, everStored>>

\* getLink: mu.RLock()
getLinkRLock(t) ==
    /\ pc[t] = "getLink"
    /\ CanRLock(mu)
    /\ mu' = [mu EXCEPT !.readers = @ \cup {t}]
    /\ pc' = [pc EXCEPT ![t] = "getLinkRead"]
    /\ UNCHANGED <<storedLinks, req, proxyReq, res, strip, out, failed, started,
                   everStored, seen>>

\* makeRequest: req.URL = originalUrl, or the error of req.URL.Parse
Restore(r, originalUrl) ==
    IF originalUrl.err THEN [err |-> TRUE, req |-> r]
    ELSE [err |-> FALSE, req |-> [r EXCEPT !.URL = originalUrl.url]]

\* getLink finding nothing, whatever the map holds
getLinkMiss(r, links, cl) == [err |-> FALSE, req |-> r]

\* getLink and the restore of makeRequest, for the key cl
getLink(r, links, cl) ==
    IF cl \in DOMAIN links THEN Restore(r, URLParse(r.URL, links[cl]))
    ELSE [err |-> FALSE, req |-> r]

\* a lookup by url alone, whatever the client
makeRequestAnyClient(r, links) ==
    getLink(r, links,
            IF \E k \in DOMAIN links : k[2] = normalizeUrl(r.URL).url
            THEN CHOOSE k \in DOMAIN links : k[2] = normalizeUrl(r.URL).url
            ELSE clientLink(r.RemoteAddr, normalizeUrl(r.URL).url))

\* makeRequest up to the call of client.Do: the target is restored when cached
makeRequest(r, links) ==
    getLink(r, links, clientLink(r.RemoteAddr, normalizeUrl(r.URL).url))

\* the transaction goes on to client.Do, or ends on the error
Restored(t, m) ==
    /\ proxyReq' = [proxyReq EXCEPT ![t] = m.req]
    /\ failed' = [failed EXCEPT ![t] = IF m.err THEN "restore" ELSE ""]
    /\ pc' = [pc EXCEPT ![t] = IF m.err THEN "done" ELSE "clientDo"]

\* getLink: the read of storedLinks and the deferred mu.RUnlock(), then
\* makeRequest up to the call of client.Do
getLinkRUnlock(t) ==
    /\ pc[t] = "getLinkRead"
    /\ mu' = [mu EXCEPT !.readers = @ \ {t}]
    /\ Restored(t, makeRequest(proxyReq[t], storedLinks))
    /\ UNCHANGED <<storedLinks, req, res, strip, out, started, everStored, seen>>

\* the body stripResponse reads: the gzip reader's when ServeHTTP installed one
BodyRead(r) ==
    IF Get(r.Header, "Content-Encoding") = "gzip"
    THEN [body |-> gzipRead(r.Body), err |-> r.readErr \/ gzipReadErr(r.Body)]
    ELSE [body |-> r.Body, err |-> r.readErr]

\* ServeHTTP going on after stripResponse whatever it returned
AfterLinksIgnoringErr(s) == IF s.links # <<>> THEN "setLink" ELSE "respond"

\* the position after stripResponse's setLink calls
AfterLinks(s) == IF s.links # <<>> THEN "setLink"
                 ELSE IF s.err THEN "done" ELSE "respond"

\* the error stripResponse has returned, if any
StripFailed(s) == IF s.err /\ s.links = <<>> THEN "strip" ELSE ""

\* client.Do fails: makeRequest returns the error and ServeHTTP returns
clientDoFails(t) ==
    /\ pc[t] = "clientDo"
    /\ failed' = [failed EXCEPT ![t] = "dispatch"]
    /\ pc' = [pc EXCEPT ![t] = "done"]
    /\ UNCHANGED <<storedLinks, mu, req, proxyReq, res, strip, out, started,
                   everStored, seen>>

\* stripResponse has run up to its first setLink, or to its return
Stripping(t, s) ==
    /\ strip' = [strip EXCEPT ![t] = s]
    /\ failed' = [failed EXCEPT ![t] = StripFailed(s)]
    /\ pc' = [pc EXCEPT ![t] = AfterLinks(s)]

\* client.Do returns a response; ServeHTTP opens the gzip reader and
\* stripResponse runs up to its first setLink
clientDo(t, responses) ==
    /\ pc[t] = "clientDo"
    /\ \E r \in responses :
          /\ res' = [res EXCEPT ![t] = r]
          /\ IF Get(r.Header, "Content-Encoding") = "gzip" /\ ~gzipHeaderOk(r.Body)
             THEN /\ failed' = [failed EXCEPT ![t] = "gzip"]
                  /\ pc' = [pc EXCEPT ![t] = "done"]
                  /\ strip' = strip
             ELSE Stripping(t, stripResponse(proxyReq[t].RemoteAddr, proxyReq[t].URL,
                                             proxyReq[t].Host, r.Header, BodyRead(r)))
    /\ UNCHANGED <<storedLinks, mu, req, proxyReq, out, started, everStored, seen>>

\* setLink: mu.Lock()
setLinkLock(t) ==
    /\ pc[t] = "setLink"
    /\ CanLock(mu)
    /\ mu' = [mu EXCEPT !.writer = t]
    /\ pc' = [pc EXCEPT ![t] = "setLinkStore"]
    /\ UNCHANGED <<storedLinks, req, proxyReq, res, strip, out, failed, started,
                   everStored, seen>>

\* setLink: storedLinks[cl] = link
setLink(t, call) ==
    /\ storedLinks' = Store(storedLinks, call.cl, call.link)
    /\ everStored' = everStored \cup {<<call.cl, call.link>>}

\* setLink returning without the deferred mu.Unlock()
setLinkNoUnlock(t) ==
    /\ pc[t] = "setLinkStore"
    /\ setLink(t, Head(strip[t].links))
    /\ Stripping(t, [strip[t] EXCEPT !.links = Tail(@)])
    /\ UNCHANGED <<mu, req, proxyReq, res, out, started, seen>>

\* setLink: the store and the deferred mu.Unlock(), then stripResponse up to
\* its next setLink or its return
setLinkUnlock(t) ==
    /\ pc[t] = "setLinkStore"
    /\ setLink(t, Head(strip[t].links))
    /\ Stripping(t, [strip[t] EXCEPT !.links = Tail(@)])
    /\ mu' = [mu EXCEPT !.writer = 0]
    /\ UNCHANGED <<req, proxyReq, res, out, started, seen>>

\* ServeHTTP writing the stripped body without compressing it again
ResponseUncompressed(r, s) ==
    [wroteHeader |-> TRUE, StatusCode |-> r.StatusCode, Header |-> VictimHeaders(s.Header),
     body |-> s.body]

\* what ServeHTTP hands to the ResponseWriter: the filtered header, the
\* status code and the body, recompressed when the response is gzip
Response(r, s) ==
    [wroteHeader |-> TRUE, StatusCode |-> r.StatusCode, Header |-> VictimHeaders(s.Header),
     body |-> IF Get(s.Header, "Content-Encoding") = "gzip" THEN gzipWrite(s.body)
              ELSE s.body]

\* ServeHTTP after stripResponse: WriteHeader, then Write, which may fail
Respond(t) ==
    /\ pc[t] = "respond"
    /\ \/ /\ out' = [out EXCEPT ![t] = Response(res[t], strip[t])]
          /\ failed' = failed
       \/ /\ out' = [out EXCEPT ![t] = [Response(res[t], strip[t]) EXCEPT !.body = ""]]
          /\ failed' = [failed EXCEPT ![t] = "write"]
    /\ pc' = [pc EXCEPT ![t] = "done"]
    /\ UNCHANGED <<storedLinks, mu, req, proxyReq, res, strip, started, everStored, seen>>

Next ==
    \E t \in Tx :
        \/ ServeHTTP(t, Requests, MaxTransactions)
        \/ getLinkRLock(t)
        \/ getLinkRUnlock(t)
        \/ clientDoFails(t)
        \/ clientDo(t, Responses)
        \/ setLinkLock(t)
        \/ setLinkUnlock(t)
        \/ Respond(t)

Spec == Init /\ [][Next]_vars

\* one transaction after another, on the wider inputs
NextSeq ==
    \/ ServeHTTP(1, AllRequests, MaxSeqTransactions)
    \/ getLinkRLock(1)
    \/ getLinkRUnlock(1)
    \/ clientDoFails(1)
    \/ clientDo(1, AllResponses)
    \/ setLinkLock(1)
    \/ setLinkUnlock(1)
    \/ Respond(1)

SpecSeq == Init /\ [][NextSeq]_vars

\* the concurrent runs under fair scheduling: a transaction that can take a
\* step takes one, every call of the upstream client returns, and the
\* RWMutex lets no waiting reader or writer starve
NextFair ==
    \E t \in Tx :
        \/ ServeHTTP(t, OneVictim, MaxFairTransactions)
        \/ getLinkRLock(t)
        \/ getLinkRUnlock(t)
        \/ clientDoFails(t)
        \/ clientDo(t, Redirects)
        \/ setLinkLock(t)
        \/ setLinkUnlock(t)
        \/ Respond(t)

\* getLinkRUnlock as a step of pc alone: t leaves getLink's critical section
\* for client.Do or for the error return of makeRequest
getLinkReturns(t) ==
    /\ pc[t] = "getLinkRead"
    /\ pc' \in {[pc EXCEPT ![t] = p] : p \in {"clientDo", "done"}}

Fairness ==
    \A t \in Tx :
        /\ SF_vars(getLinkRLock(t))
        /\ WF_pc(getLinkReturns(t))
        /\ WF_vars(clientDoFails(t) \/ clientDo(t, Redirects))
        /\ SF_vars(setLinkLock(t))
        /\ WF_vars(setLinkUnlock(t))
        /\ WF_vars(Respond(t))

SpecFair == Init /\ [][NextFair]_vars /\ Fairness

(***************************************************************************)
(* Properties of the concurrent runs (Spec).                               *)
(***************************************************************************)

\* transaction t is at its upstream dispatch: proxyReq[t].URL is the target
Dispatching(t) == pc[t] = "clientDo"

\* C1, as stated: a transaction that starts after (c, s) -> o was stored and
\* looks up (c, s) dispatches its upstream request to o.
C1_DispatchesToStored ==
    \A t \in Tx : Dispatching(t) => \A o \in seen[t] : proxyReq[t].URL = o

\* t dispatches to one of links, and to the link t saw stored when it started
\* if that is the only one
DispatchesToOneOf(t, links) ==
    /\ proxyReq[t].URL \in links
    /\ \A o \in seen[t] : links = {o} => proxyReq[t].URL = o

\* C1, amended: a transaction that starts after some entry was stored under
\* (c, s) and looks up (c, s) dispatches to a link that has been stored under
\* (c, s); it is o itself when o is the only link ever stored under that key.
C1_DispatchesToSomeStored ==
    \A t \in Tx :
        Dispatching(t) /\ seen[t] # {}
            => DispatchesToOneOf(t, LinksEver(LookupKey(req[t])))

\* a third transaction dispatches to the link an earlier one stored
C1_Witness ==
    \E t \in Tx :
        /\ Dispatching(t)
        /\ started = MaxTransactions
        /\ seen[t] # {}
        /\ proxyReq[t].URL \in seen[t]
        /\ proxyReq[t].URL # String(Parse(req[t].URL))

\* the upstream Location of t's response
UpstreamLocation(t) == Get(res[t].Header, "Location")

\* t is about to emit a response whose Location was rewritten
EmitsRewrittenLocation(t) ==
    pc[t] = "respond" /\ HasPrefix(UpstreamLocation(t), "https")

\* the key under which the rewritten Location of t's response is cached
LocationKey(t) ==
    clientLink(req[t].RemoteAddr, normalizeUrl("http" \o From(UpstreamLocation(t), 6)).url)

\* C6, as stated: when a response with a rewritten Location is emitted, the
\* Link Map maps (client, normalized http Location) to the upstream Location.
C6_LocationCached ==
    \A t \in Tx :
        EmitsRewrittenLocation(t)
            => /\ LocationKey(t) \in DOMAIN storedLinks
               /\ storedLinks[LocationKey(t)] = UpstreamLocation(t)

\* the Link Map has an entry under key, location has been stored under it,
\* and the entry holds location unless another link was stored under key
CachedUnder(key, location) ==
    /\ key \in DOMAIN storedLinks
    /\ location \in LinksEver(key)
    /\ storedLinks[key] \in LinksEver(key)
    /\ LinksEver(key) = {location} => storedLinks[key] = location

\* C6, amended: when a response with a rewritten Location is emitted, the
\* Link Map has an entry for (client, normalized http Location) and the
\* upstream Location has been stored under it; the entry holds the upstream
\* Location unless another link was stored under the same key.
C6_LocationCachedLastWrite ==
    \A t \in Tx :
        EmitsRewrittenLocation(t) => CachedUnder(LocationKey(t), UpstreamLocation(t))

\* a response with a rewritten Location is emitted while the other
\* transaction is storing, and the entry holds the upstream Location
C6_Witness ==
    \E t \in Tx :
        /\ EmitsRewrittenLocation(t)
        /\ storedLinks[LocationKey(t)] = UpstreamLocation(t)
        /\ Get(strip[t].Header, "Location") = LocationKey(t)[2]
        /\ \E u \in Tx \ {t} : pc[u] = "setLinkStore"

\* C7: while a transaction is inside setLink's critical section no other
\* transaction is inside setLink's or getLink's; lookups may overlap.
C7_WriterExclusive ==
    \A t \in Tx :
        pc[t] = "setLinkStore"
            => /\ mu.writer = t
               /\ mu.readers = {}
               /\ \A u \in Tx \ {t} : pc[u] \notin {"setLinkStore", "getLinkRead"}

\* a store is in its critical section while the other transaction waits for
\* the lock
C7_Witness ==
    \E t \in Tx :
        /\ pc[t] = "setLinkStore"
        /\ \E u \in Tx \ {t} : pc[u] \in {"getLink", "setLink"}

\* the Link Map has an entry under key and t dispatches to a link stored
\* under it
RestoredFrom(t, key) ==
    /\ key \in DOMAIN storedLinks
    /\ proxyReq[t].URL \in LinksEver(key)

\* C9: a request is dispatched with a replaced target only when the Link Map
\* holds an entry for (its client id, its normalized url); entries of other
\* clients for the same url leave the target unchanged.
C9_ReplacedOnlyOnHit ==
    \A t \in Tx :
        Dispatching(t) /\ proxyReq[t].URL # String(Parse(req[t].URL))
            => RestoredFrom(t, LookupKey(req[t]))

\* a request is dispatched unchanged while the map holds its url only under
\* another client id
C9_Witness ==
    \E t \in Tx :
        /\ Dispatching(t)
        /\ proxyReq[t].URL = String(Parse(req[t].URL))
        /\ LookupKey(req[t]) \notin DOMAIN storedLinks
        /\ \E k \in DOMAIN storedLinks : k[2] = LookupKey(req[t])[2]

(***************************************************************************)
(* Properties of one transaction after another (SpecSeq), on the wider     *)
(* inputs.                                                                 *)
(***************************************************************************)

\* C2: every Link Map entry has a key url of scheme http and a value url of
\* scheme https, whichever writer stored it and whatever the scheme of the
\* request that triggered the write.
C2_KeyHttpValueHttps ==
    \A cl \in DOMAIN storedLinks :
        HasPrefix(cl[2], "http://") /\ HasPrefix(storedLinks[cl], "https://")

\* transaction t has returned from ServeHTTP with the whole response written
Emitted(t) == pc[t] = "done" /\ failed[t] = "" /\ out[t].wroteHeader

\* the plaintext of the body emitted by t
EmittedPlaintext(t) ==
    IF Get(out[t].Header, "Content-Encoding") = "gzip" THEN gzipRead(out[t].body)
    ELSE out[t].body

\* the positions of body where https:// is followed by a character of the
\* url class
HttpsLinks(body) ==
    {i \in 1..Len(body) :
        HasPrefixAt(body, i, "https://") /\ i + 8 <= Len(body) /\ Ch(body, i + 8) \in UrlChars}

\* position i of a style sheet lies in a url(...) the CSS rewriter leaves as
\* it is
InUntouchedCssUrl(body, i) ==
    \E j \in 1..i :
        /\ CssMatchEnd(body, j) > i
        /\ ~stripCssUrl(SubSeq(body, j, CssMatchEnd(body, j) - 1), "", "", "").stored

\* C3: the plaintext body emitted to the victim has no https:// followed by
\* characters of the url class, except inside url(...) portions of a style
\* sheet that the CSS rewriter left untouched.
C3_NoHttpsInBody ==
    \A t \in Tx :
        Emitted(t)
            => \A i \in HttpsLinks(EmittedPlaintext(t)) :
                   /\ Contains(Get(out[t].Header, "Content-Type"), "text/css")
                   /\ InUntouchedCssUrl(EmittedPlaintext(t), i)

\* C4: no Set-Cookie value emitted to the victim contains "Secure".
C4_NoSecureCookie ==
    \A t \in Tx :
        Emitted(t) /\ "Set-Cookie" \in DOMAIN out[t].Header
            => \A i \in 1..Len(out[t].Header["Set-Cookie"]) :
                   ~Contains(out[t].Header["Set-Cookie"][i], "Secure")

\* transaction t has written a response header to the victim
WroteHeader(t) == pc[t] = "done" /\ out[t].wroteHeader

\* the value the response rewriter leaves in header k for the upstream values vs
Rewritten(k, vs) ==
    IF k = "Set-Cookie" THEN [i \in 1..Len(vs) |-> stripCookie(vs[i])]
    ELSE IF k = "Location" /\ HasPrefix(vs[1], "https")
    THEN <<normalizeUrl("http" \o From(vs[1], 6)).url>>
    ELSE vs

\* C5: a response written to the victim carries none of the denied response
\* headers and carries every other header of the upstream response with all
\* of its values, as the response rewriter left them.
C5_ResponseHeaders ==
    \A t \in Tx :
        WroteHeader(t)
            => /\ DOMAIN out[t].Header \cap ignoredResponseHeaders = {}
               /\ DOMAIN out[t].Header = DOMAIN res[t].Header \ ignoredResponseHeaders
               /\ \A k \in DOMAIN out[t].Header :
                      out[t].Header[k] = Rewritten(k, res[t].Header[k])

\* a response is written whose upstream had denied headers, cookies and
\* other headers
C5_Witness ==
    \E t \in Tx :
        /\ WroteHeader(t)
        /\ DOMAIN res[t].Header \cap ignoredResponseHeaders # {}
        /\ {"Set-Cookie", "Content-Type"} \subseteq DOMAIN out[t].Header
        /\ out[t].Header["Set-Cookie"] # res[t].Header["Set-Cookie"]

\* C8, as stated: a transaction that fails at any step returns without having
\* written a status code or body bytes to the victim.
C8_FailureWritesNothing ==
    \A t \in Tx :
        pc[t] = "done" /\ failed[t] # ""
            => ~out[t].wroteHeader /\ out[t].body = ""

\* C8, amended: a transaction that fails before the response is written (on
\* the request body, the restore, the dispatch, the gzip reader or the
\* stripping) returns without having written a status code or body bytes; if
\* writing the body fails, the status code and header are already written.
C8_FailureBeforeWrite ==
    \A t \in Tx :
        pc[t] = "done"
            => /\ failed[t] \in {"readBody", "restore", "dispatch", "gzip", "strip"}
                      => ~out[t].wroteHeader /\ out[t].body = ""
               /\ failed[t] = "write"
                      => out[t].wroteHeader /\ out[t].StatusCode = res[t].StatusCode

\* a transaction has returned on a failed stripping after a setLink
C8_Witness ==
    \E t \in Tx :
        /\ pc[t] = "done"
        /\ failed[t] = "strip"
        /\ ~out[t].wroteHeader
        /\ storedLinks # <<>>
        /\ started = 1

\* transaction t has built its upstream request
Built(t) == pc[t] # "idle" /\ failed[t] # "readBody"

\* C10: the upstream request carries none of the denied request headers,
\* every other header of the incoming request unchanged, and the incoming
\* request's method, host, close flag, body and peer.
C10_UpstreamRequest ==
    \A t \in Tx :
        Built(t)
            => /\ DOMAIN proxyReq[t].Header \cap ignoredRequestHeaders = {}
               /\ DOMAIN proxyReq[t].Header = DOMAIN req[t].Header \ ignoredRequestHeaders
               /\ \A k \in DOMAIN proxyReq[t].Header : proxyReq[t].Header[k] = req[t].Header[k]
               /\ proxyReq[t].Method = req[t].Method
               /\ proxyReq[t].Host = req[t].Host
               /\ proxyReq[t].Close = req[t].Close
               /\ proxyReq[t].Body = req[t].Body
               /\ proxyReq[t].RemoteAddr = req[t].RemoteAddr

\* a POST with a body, denied headers and a repeated header is dispatched
C10_Witness ==
    \E t \in Tx :
        /\ Dispatching(t)
        /\ ignoredRequestHeaders \subseteq DOMAIN req[t].Header
        /\ \E k \in DOMAIN proxyReq[t].Header : Len(proxyReq[t].Header[k]) > 1
        /\ req[t].Method = "POST"
        /\ req[t].Body # ""

\* the upstream response of t is declared gzip
UpstreamGzip(t) == Get(res[t].Header, "Content-Encoding") = "gzip"

\* neither regex of the rewriter matches in body: no substitution is made
NoSubstitution(header, body) ==
    /\ \A i \in 1..Len(body) : ~HasPrefixAt(body, i, "https://")
    /\ Contains(Get(header, "Content-Type"), "text/css")
           => \A i \in 1..Len(body) : CssMatchEnd(body, i) = 0

\* C11: for a gzip upstream response in which the rewriter substitutes
\* nothing, the emitted body is a gzip stream that decodes to the decoded
\* upstream bytes, and Content-Encoding: gzip is kept.
C11_GzipRoundTrip ==
    \A t \in Tx :
        Emitted(t) /\ UpstreamGzip(t) /\ NoSubstitution(res[t].Header, gzipRead(res[t].Body))
            => /\ gzipHeaderOk(out[t].body)
               /\ ~gzipReadErr(out[t].body)
               /\ gzipRead(out[t].body) = gzipRead(res[t].Body)
               /\ "Content-Encoding" \in DOMAIN out[t].Header
               /\ out[t].Header["Content-Encoding"] = <<"gzip">>

\* a gzip page without links has been emitted
C11_Witness ==
    \E t \in Tx :
        /\ Emitted(t)
        /\ UpstreamGzip(t)
        /\ NoSubstitution(res[t].Header, gzipRead(res[t].Body))
        /\ gzipRead(res[t].Body) = "hello"
        /\ out[t].body # "hello"

\* the upstream response of t has a Content-Encoding other than gzip
UpstreamOtherEncoding(t) ==
    "Content-Encoding" \in DOMAIN res[t].Header /\ ~UpstreamGzip(t)

\* the setLink calls stripResponse still has to make for t all come from the
\* Location header
OnlyLocationPending(t) ==
    \A i \in 1..Len(strip[t].links) : strip[t].links[i].link = UpstreamLocation(t)

\* C12: for an upstream response with a Content-Encoding other than gzip,
\* the body emitted to the victim equals the upstream body and no Link Map
\* entry is stored from the body.
C12_OtherEncodingsUntouched ==
    \A t \in Tx :
        UpstreamOtherEncoding(t)
            => /\ Emitted(t) => out[t].body = res[t].Body
               /\ pc[t] \in {"setLink", "setLinkStore"} => OnlyLocationPending(t)

\* the inner reference of a match m of the CSS regex, free of the quotes
InnerReference(m) ==
    SubSeq(m, SkipQuote(m, 5),
           IF Ch(m, Len(m) - 1) \in Quotes /\ Len(m) - 1 >= SkipQuote(m, 5)
           THEN Len(m) - 2 ELSE Len(m) - 1)

\* the response to t carries the rewrite of the reference R of host H
RootReferenceRewritten(t, H, R) ==
    /\ Contains(out[t].body, "url('http://" \o H \o R \o "')")
    /\ clientLink(req[t].RemoteAddr, "http://" \o H \o R) \in DOMAIN storedLinks
    /\ storedLinks[clientLink(req[t].RemoteAddr, "http://" \o H \o R)] = "https://" \o H \o R

\* the match m of the CSS regex is a reference from the root that the
\* rewriter does not skip
RootReference(m) ==
    /\ HasPrefix(InnerReference(m), "/")
    /\ stripCssUrl(m, "", "", "").stored

\* C13: for a text/css response to a request for https://H/P, every url(R),
\* url('R') and url("R") with R starting with "/" is emitted as
\* url('http://H' + R + '') and the Link Map maps (client, http://H + R) to
\* https://H + R.
C13_CssRootReference ==
    \A t \in Tx :
        /\ Emitted(t)
        /\ Contains(Get(res[t].Header, "Content-Type"), "text/css")
        /\ HasPrefix(proxyReq[t].URL, "https://")
        => \A j \in {i \in 1..Len(res[t].Body) : CssMatchEnd(res[t].Body, i) # 0} :
               RootReference(SubSeq(res[t].Body, j, CssMatchEnd(res[t].Body, j) - 1))
                   => RootReferenceRewritten(
                          t, Parse(proxyReq[t].URL).Host,
                          InnerReference(SubSeq(res[t].Body, j, CssMatchEnd(res[t].Body, j) - 1)))

(***************************************************************************)
(* Properties of the concurrent runs under fair scheduling (SpecFair).     *)
(***************************************************************************)

\* transaction t is inside ServeHTTP
Running(t) == pc[t] \notin {"idle", "done"}

\* transaction t holds the Link Map lock, as reader or as writer
HoldsLock(t) == mu.writer = t \/ t \in mu.readers

\* C14: every started transaction eventually returns from ServeHTTP, and no
\* transaction is outside ServeHTTP while holding the Link Map lock; so no
\* transaction waits for the lock for ever.
C14_Terminates ==
    /\ \A t \in Tx : Running(t) ~> pc[t] = "done"
    /\ [](\A t \in Tx : ~Running(t) => ~HoldsLock(t))

\* both transactions have returned, one after storing links, and the lock
\* is free
C14_Witness ==
    /\ \A t \in Tx : pc[t] = "done"
    /\ started = MaxFairTransactions
    /\ storedLinks # <<>>
    /\ mu = [writer |-> 0, readers |-> {}]
=============================================================================
